---------------------------- MODULE Spec2Model ----------------------------
(***************************************************************************)
(* A model of cirq/sim/mps_simulator.py: the matrix-product-state          *)
(* simulator state MPSState (construction, copy, _sum_up / state_vector,   *)
(* apply_unitary, perform_measurement) and MPSSimulatorStepResult.sample.  *)
(*                                                                         *)
(* Numbers are exact rationals <<numerator, denominator>>.  Arrays are     *)
(* records [shape, data] with the data in numpy's row-major (C) order, so  *)
(* that reshape keeps the data and changes the shape only.                 *)
(***************************************************************************)
EXTENDS Integers, Sequences, FiniteSets, TLC

(***************************************************************************)
(* Exact rational arithmetic (stands for numpy's float64 arithmetic).      *)
(***************************************************************************)
Abs(x) == IF x < 0 THEN -x ELSE x

RECURSIVE GCD(_, _)
GCD(a, b) == IF b = 0 THEN a ELSE GCD(b, a % b)

Rat(n, d) ==
    LET g == GCD(Abs(n), d) IN IF n = 0 THEN <<0, 1>> ELSE <<n \div g, d \div g>>

Zero == <<0, 1>>
One == <<1, 1>>

RAdd(x, y) ==
    IF x[1] = 0 THEN y
    ELSE IF y[1] = 0 THEN x
    ELSE IF x[2] = 1 /\ y[2] = 1 THEN <<x[1] + y[1], 1>>
    ELSE LET g == GCD(x[2], y[2])
         IN Rat(x[1] * (y[2] \div g) + y[1] * (x[2] \div g), (x[2] \div g) * y[2])

RMul(x, y) ==
    IF x[1] = 0 \/ y[1] = 0 THEN Zero
    ELSE IF x = One THEN y
    ELSE IF y = One THEN x
    ELSE IF x[2] = 1 /\ y[2] = 1 THEN <<x[1] * y[1], 1>>
    ELSE LET g1 == GCD(Abs(x[1]), y[2])
             g2 == GCD(Abs(y[1]), x[2])
         IN <<(x[1] \div g1) * (y[1] \div g2), (x[2] \div g2) * (y[2] \div g1)>>

RNeg(x) == <<-x[1], x[2]>>
RSub(x, y) == RAdd(x, RNeg(y))
RAbs(x) == <<Abs(x[1]), x[2]>>
\* 1 / x for x # 0
RInv(x) == IF x[1] < 0 THEN <<-x[2], -x[1]>> ELSE <<x[2], x[1]>>
RDiv(x, y) == RMul(x, RInv(y))
RLeq(x, y) == x[1] * y[2] <= y[1] * x[2]

(***************************************************************************)
(* Arrays.  Indices are 0-based as in numpy; sequences are 1-based.        *)
(***************************************************************************)
RECURSIVE Prod(_)
Prod(s) == IF s = <<>> THEN 1 ELSE s[1] * Prod(Tail(s))

Range(s) == {s[k] : k \in DOMAIN s}
MinOf(S) == CHOOSE x \in S : \A y \in S : x <= y

\* the k-th coordinate of the multi-index at flat offset f
Coord(shape, f, k) ==
    (f \div Prod(SubSeq(shape, k + 1, Len(shape)))) % shape[k]

Arr(shape, data) == [shape |-> shape \o <<>>, data |-> data \o <<>>]

\* np.ones(shape), np.zeros(shape)
Ones(shape) == Arr(shape, [f \in 1..Prod(shape) |-> One])
Zeros(shape) == Arr(shape, [f \in 1..Prod(shape) |-> Zero])

\* a.reshape(shape); numpy raises ValueError unless the sizes agree
ReshapeOK(a, shape) == Prod(a.shape) = Prod(shape)
Reshape(a, shape) == Arr(shape, a.data)


(***************************************************************************)
(* np.einsum.  An operand is [l |-> <<axis labels>>, a |-> array].  As in  *)
(* numpy, an axis of extent 1 is broadcast against the other extents of    *)
(* its label; two different extents other than 1 raise ValueError.         *)
(***************************************************************************)
Opnd(labels, a) == [l |-> labels, a |-> a]

EinsumLabels(ops) == UNION {Range(ops[o].l) : o \in DOMAIN ops}

EinsumExtents(ops, lab) ==
    UNION {{ops[o].a.shape[k] : k \in {j \in DOMAIN ops[o].l : ops[o].l[j] = lab}}
           : o \in DOMAIN ops}

EinsumExt(ops, lab) ==
    LET big == EinsumExtents(ops, lab) \ {1}
    IN IF big = {} THEN 1 ELSE CHOOSE e \in big : TRUE

EinsumOK(ops) ==
    /\ \A o \in DOMAIN ops : Len(ops[o].l) = Len(ops[o].a.shape)
    /\ \A lab \in EinsumLabels(ops) : Cardinality(EinsumExtents(ops, lab) \ {1}) <= 1

\* the row-major stride of axis k of an array of this shape
Stride(shape, k) == Prod(SubSeq(shape, k + 1, Len(shape)))

\* what one step along label lab adds to the flat offset into operand op
\* (nothing along a broadcast axis)
LabelStride(op, lab) ==
    LET term[k \in 0..Len(op.l)] ==
            IF k = 0 THEN 0
            ELSE term[k - 1] + (IF op.l[k] = lab /\ op.a.shape[k] # 1
                                THEN Stride(op.a.shape, k) ELSE 0)
    IN term[Len(op.l)]

\* the flat offsets into an operand, listed in the row-major order of an
\* index space with extents exts, a step along its k-th axis adding w[k]
RECURSIVE OffsetTable(_, _, _)
OffsetTable(exts, w, k) ==
    IF k > Len(exts) THEN <<0>>
    ELSE LET rest == OffsetTable(exts, w, k + 1)
             n == Len(rest)
         IN [g \in 1..(exts[k] * n) |->
                ((g - 1) \div n) * w[k] + rest[((g - 1) % n) + 1]] \o <<>>

RECURSIVE SetToSeq(_)
SetToSeq(S) ==
    IF S = {} THEN <<>>
    ELSE LET x == CHOOSE y \in S : TRUE IN <<x>> \o SetToSeq(S \ {x})

RECURSIVE SumTo(_, _)
SumTo(f, n) == IF n = 0 THEN Zero ELSE RAdd(SumTo(f, n - 1), f[n])

\* the product of the operands' elements selected by output offset f and
\* summation offset t
RECURSIVE EinsumTerm(_, _, _, _, _, _)
EinsumTerm(ops, A, B, f, t, o) ==
    IF o > Len(ops) THEN One
    ELSE LET v == ops[o].a.data[1 + A[o][f] + B[o][t]]
         IN IF v[1] = 0 THEN Zero ELSE RMul(v, EinsumTerm(ops, A, B, f, t, o + 1))

Einsum(ops, out) ==
    LET ext == [lab \in EinsumLabels(ops) |-> EinsumExt(ops, lab)]
        shape == [k \in DOMAIN out |-> ext[out[k]]] \o <<>>
        summed == SetToSeq(EinsumLabels(ops) \ Range(out))
        sshape == [k \in DOMAIN summed |-> ext[summed[k]]] \o <<>>
        nsum == Prod(sshape)
        A == [o \in DOMAIN ops |->
                 OffsetTable(shape, [k \in DOMAIN out |-> LabelStride(ops[o], out[k])], 1)]
             \o <<>>
        B == [o \in DOMAIN ops |->
                 OffsetTable(sshape,
                             [k \in DOMAIN summed |-> LabelStride(ops[o], summed[k])], 1)]
             \o <<>>
    IN Arr(shape,
           [f \in 1..Prod(shape) |->
               SumTo([t \in 1..nsum |-> EinsumTerm(ops, A, B, f, t, 1)], nsum)])

(***************************************************************************)
(* Qudits and the qubit map.  A qudit is a record with its kind (LineQid   *)
(* or GridQid), its dimension and its coordinates.  The simulator builds   *)
(* qubit_map = {q: i for i, q in enumerate(qubits)}: the keys in insertion *)
(* order, the k-th key (k = 1, 2, ...) mapped to position k - 1.           *)
(***************************************************************************)
LineQid(x, d) == [kind |-> "LineQid", dimension |-> d, row |-> 0, col |-> x]
GridQid(r, c, d) == [kind |-> "GridQid", dimension |-> d, row |-> r, col |-> c]

\* qubit_map[q] for the q-th key
QubitMap(q) == q - 1

is_2d_grid(keys) == keys # <<>> /\ keys[1].kind = "GridQid"

Reverse(s) == [k \in 1..Len(s) |-> s[Len(s) + 1 - k]]

(***************************************************************************)
(* MPSState.__init__                                                       *)
(***************************************************************************)
threshold_default == <<1, 1000>>

\* x = np.zeros((1, 1, 1, 1, d)); x[0, 0, 0, 0, digit] = 1.0
BasisSite(d, digit) ==
    Arr(<<1, 1, 1, 1, d>>, [f \in 1..d |-> IF f = digit + 1 THEN One ELSE Zero])

\* the sites in the order the loop appends them
RECURSIVE InitSites(_, _)
InitSites(keys, initial_state) ==
    IF keys = <<>> THEN <<>>
    ELSE LET d == keys[1].dimension
         IN <<BasisSite(d, initial_state % d)>>
                \o InitSites(Tail(keys), initial_state \div d)

\* the appended sites left in the order of the loop, the first key holding
\* the least significant digit (what line 255 prevents)
MPSState_M_unreversed(keys, initial_state) == InitSites(keys, initial_state)

\* self.M after __init__ : the appended sites reversed
MPSState_M(keys, initial_state) == Reverse(InitSites(keys, initial_state))

(***************************************************************************)
(* MPSState._sum_up.  The result is [raised, value]: raised is "" or the   *)
(* exception, value the returned vector.                                   *)
(***************************************************************************)
\* lines 296 and 329: the two physical axes of the joined row merged
ReshapeRow(M) == Reshape(M, <<M.shape[1], M.shape[2], M.shape[3] * M.shape[4]>>)

\* lines 290-296 (and 323-329): the finished row Mi joined to M
JoinRow(M, Mi) ==
    IF Mi.shape[1] # 1 \/ Mi.shape[2] # 1
    THEN [raised |-> "AssertionError", M |-> M]
    ELSE LET Mi3 == Reshape(Mi, SubSeq(Mi.shape, 3, 5))
             ops == <<Opnd(<<"m", "n", "i">>, M), Opnd(<<"n", "p", "j">>, Mi3)>>
         IN IF ~EinsumOK(ops)
            THEN [raised |-> "ValueError", M |-> M]
            ELSE [raised |-> "", M |-> ReshapeRow(Einsum(ops, <<"m", "p", "i", "j">>))]

\* lines 305-311 and 314-320: the reshape of the contracted Mi, of 8 axes
\* when the physical axis of the site is kept and of 7 when it is summed
ReshapeSite(Mi) ==
    Reshape(Mi, <<Mi.shape[1], Mi.shape[2], Mi.shape[3] * Mi.shape[4],
                  Mi.shape[5] * Mi.shape[6],
                  IF Len(Mi.shape) = 8 THEN Mi.shape[7] * Mi.shape[8]
                  ELSE Mi.shape[7]>>)

\* lines 301-320: site i contracted into Mi, its physical axis kept or summed
AddSite(Mi, site, skip_tracing_out) ==
    LET ops == <<Opnd(<<"m", "n", "o", "p", "i">>, Mi),
                 Opnd(<<"n", "q", "r", "s", "j">>, site)>>
    IN IF ~EinsumOK(ops) THEN [raised |-> "ValueError", Mi |-> Mi]
       ELSE [raised |-> "",
             Mi |-> ReshapeSite(Einsum(ops,
                        IF skip_tracing_out
                        THEN <<"m", "q", "o", "r", "p", "s", "i", "j">>
                        ELSE <<"m", "q", "o", "r", "p", "s", "i">>))]

RECURSIVE SumUpLoop(_, _, _, _, _, _, _)

\* the end of iteration i of the loop, `joined` being the outcome of lines
\* 285-299 and `added` the outcome of lines 301-320
SumUpNext(keys, sites, skip, i, row_i, M, Mi, joined, added) ==
    IF joined.raised # "" THEN [raised |-> joined.raised, M |-> M, Mi |-> Mi]
    ELSE IF added.raised # "" THEN [raised |-> added.raised, M |-> M, Mi |-> Mi]
    ELSE SumUpLoop(keys, sites, skip, i + 1, row_i, joined.M, added.Mi)

\* the loop of lines 282-320 from position i on
SumUpLoop(keys, sites, skip, i, row, M, Mi) ==
    IF i >= Len(sites) THEN [raised |-> "", M |-> M, Mi |-> Mi]
    ELSE
      LET row_i == IF is_2d_grid(keys) THEN keys[i + 1].row ELSE 0
          Mi0 == IF row = row_i THEN Mi ELSE Ones(<<1, 1, 1, 1, 1>>)
          skip_tracing_out == skip = {} \/ i \in skip
      IN SumUpNext(keys, sites, skip, i, row_i, M, Mi,
                   IF row = row_i THEN [raised |-> "", M |-> M]
                   ELSE IF row = -1 THEN [raised |-> "", M |-> Ones(<<1, 1, 1>>)]
                   ELSE JoinRow(M, Mi),
                   AddSite(Mi0, sites[i + 1], skip_tracing_out))

\* lines 331-335 on the outcome of the last row join
SumUpValue(last_row) ==
    IF last_row.raised # "" THEN [raised |-> last_row.raised, value |-> Zeros(<<0>>)]
    ELSE IF last_row.M.shape[1] # 1 \/ last_row.M.shape[2] # 1
    THEN [raised |-> "AssertionError", value |-> Zeros(<<0>>)]
    ELSE [raised |-> "", value |-> Reshape(last_row.M, <<last_row.M.shape[3]>>)]

\* lines 322-335 on the outcome of the loop
SumUpEnd(loop) ==
    IF loop.raised # "" THEN [raised |-> loop.raised, value |-> Zeros(<<0>>)]
    ELSE SumUpValue(JoinRow(loop.M, loop.Mi))

sum_up(keys, sites, skip_tracing_out_for_qubits) ==
    SumUpEnd(SumUpLoop(keys, sites, skip_tracing_out_for_qubits, 0, -1,
                       Ones(<<1, 1, 1>>), Ones(<<1, 1, 1, 1, 1>>)))

state_vector(keys, sites) == sum_up(keys, sites, {})

(***************************************************************************)
(* The operations' unitaries, protocols.unitary(op) reshaped to            *)
(* [qubit.dimension for qubit in op.qubits] * 2 (line 344).  All are real  *)
(* unitaries with rational entries:                                        *)
(*   X    |j> -> |j+1 mod d>                                               *)
(*   R    the rotation [[3/5, -4/5], [4/5, 3/5]] of levels 0 and 1         *)
(*   CX   |a, b> -> |a, b+a mod d2>                                        *)
(*   CR   R on the second qudit when the first is in level 1              *)
(*   CCX  |a, b, c> -> |a, b, c+a*b mod d3>                                *)
(***************************************************************************)
UnitaryX(d) ==
    Arr(<<d, d>>, [f \in 1..(d * d) |->
        LET i == (f - 1) \div d
            j == (f - 1) % d
        IN IF i = (j + 1) % d THEN One ELSE Zero])

UnitaryR(d) ==
    Arr(<<d, d>>, [f \in 1..(d * d) |->
        LET i == (f - 1) \div d
            j == (f - 1) % d
        IN IF i > 1 \/ j > 1 THEN (IF i = j THEN One ELSE Zero)
           ELSE IF i = j THEN <<3, 5>>
           ELSE IF i = 0 THEN <<-4, 5>> ELSE <<4, 5>>])

UnitaryCX(dims) ==
    LET shape == <<dims[1], dims[2], dims[1], dims[2]>>
    IN Arr(shape, [f \in 1..Prod(shape) |->
        LET k == Coord(shape, f - 1, 1)
            l == Coord(shape, f - 1, 2)
            i == Coord(shape, f - 1, 3)
            j == Coord(shape, f - 1, 4)
        IN IF k = i /\ l = (j + i) % dims[2] THEN One ELSE Zero])

UnitaryCR(dims) ==
    LET shape == <<dims[1], dims[2], dims[1], dims[2]>>
        R == UnitaryR(dims[2])
    IN Arr(shape, [f \in 1..Prod(shape) |->
        LET k == Coord(shape, f - 1, 1)
            l == Coord(shape, f - 1, 2)
            i == Coord(shape, f - 1, 3)
            j == Coord(shape, f - 1, 4)
        IN IF k # i THEN Zero
           ELSE IF i = 1 THEN R.data[l * dims[2] + j + 1]
           ELSE IF l = j THEN One ELSE Zero])

UnitaryCCX(dims) ==
    LET shape == dims \o dims
    IN Arr(shape, [f \in 1..Prod(shape) |->
        LET a == Coord(shape, f - 1, 1)
            b == Coord(shape, f - 1, 2)
            c == Coord(shape, f - 1, 3)
            i == Coord(shape, f - 1, 4)
            j == Coord(shape, f - 1, 5)
            k == Coord(shape, f - 1, 6)
        IN IF a = i /\ b = j /\ c = (k + i * j) % dims[3] THEN One ELSE Zero])

Gates1 == {"X", "R"}
Gates2 == {"CX", "CR"}
Gates3 == {"CCX"}

Unitary(gate, dims) ==
    CASE gate = "X" -> UnitaryX(dims[1])
      [] gate = "R" -> UnitaryR(dims[1])
      [] gate = "CX" -> UnitaryCX(dims)
      [] gate = "CR" -> UnitaryCR(dims)
      [] gate = "CCX" -> UnitaryCCX(dims)

(***************************************************************************)
(* np.linalg.svd and the truncation of lines 383-396.                      *)
(*                                                                         *)
(* The factors X sqrt(S) and sqrt(S) Y that the code stores are irrational *)
(* in general.  The model keeps exact what the rest of the code reads: the *)
(* number nkeep of singular values kept, hence the extent of the new bond  *)
(* axis, and the product (X sqrt(S)) (sqrt(S) Y), which is the flattened   *)
(* joint tensor when every non-zero singular value is kept.  The basis of  *)
(* the new bond axis is fixed by the reduced row echelon form.             *)
(***************************************************************************)
MatRows(a) ==
    [r \in 1..a.shape[1] |-> [c \in 1..a.shape[2] |-> a.data[(r - 1) * a.shape[2] + c]]]

RECURSIVE Rref(_, _, _)
Rref(A, r, c) ==
    IF r > Len(A) \/ c > Len(A[1]) THEN A
    ELSE LET cand == {i \in r..Len(A) : A[i][c][1] # 0}
         IN IF cand = {} THEN Rref(A, r, c + 1)
            ELSE LET i == MinOf(cand)
                     prow == [k \in DOMAIN A[i] |-> RDiv(A[i][k], A[i][c])]
                     B == [j \in DOMAIN A |->
                             IF j = r THEN prow
                             ELSE LET row == IF j = i THEN A[r] ELSE A[j]
                                  IN [k \in DOMAIN row |->
                                         RSub(row[k], RMul(row[c], prow[k]))]]
                 IN Rref(B, r + 1, c + 1)

IsZeroRow(row) == \A k \in DOMAIN row : row[k][1] = 0

\* the number of non-zero singular values of the matrix
MatRank(E) == Cardinality({r \in DOMAIN E : ~IsZeroRow(E[r])})

\* the sum of the squares of the entries: the sum of the squares of the
\* singular values
SquaredNorm(A) ==
    SumTo([f \in DOMAIN A.data |-> RMul(A.data[f], A.data[f])], Len(A.data))

\* the determinant of a 2 x 2 array: in absolute value the product of its
\* two singular values
Det2(A) == RSub(RMul(A.data[1], A.data[4]), RMul(A.data[2], A.data[3]))

\* s_1 >= ratio * s_0 for the singular values s_0 >= s_1 > 0 of a 2 x 2
\* array and 0 < ratio <= 1: x / (1 + x^2) grows on [0, 1] and is
\* s_0 s_1 / (s_0^2 + s_1^2) at x = s_1 / s_0
SecondReaches(A, ratio) ==
    RLeq(RMul(ratio, SquaredNorm(A)),
         RMul(RAbs(Det2(A)), RAdd(One, RMul(ratio, ratio))))

\* lines 387-392, S sorted descending; line 387 replaces S by its square
\* roots before the comparison of line 391:
\*   S = 0: 0 >= 0 * threshold for every i, all min(R, C) values are kept;
\*   threshold > 1: S[0] >= S[0] * threshold fails, and so for every S[i];
\*   otherwise S[0] is kept and the zero singular values are dropped;
\*   with the threshold 1e-3 of line 257 a non-zero s_i is kept, the ratio
\*   s_i / s_0 >= 1e-6 for the matrices within the model's bounds;
\*   with another threshold, for a 2 x 2 matrix of rank 2, S[1] is kept
\*   when sqrt(s_1) >= sqrt(s_0) * threshold.
NKeep(mat, rank, threshold) ==
    LET R == mat.shape[1]
        C == mat.shape[2]
    IN CASE rank = 0 -> (IF R < C THEN R ELSE C)
         [] rank > 0 /\ ~RLeq(threshold, One) -> 0
         [] rank = 1 /\ RLeq(threshold, One) -> 1
         [] rank > 1 /\ threshold = threshold_default -> rank
         [] rank = 2 /\ R = 2 /\ C = 2 /\ RLeq(threshold, One)
                     /\ threshold # threshold_default ->
                IF SecondReaches(mat, RMul(threshold, threshold)) THEN 2 ELSE 1

\* [XS, SY, lossy, mat]: X[:, :nkeep] sqrt(S) as an R x nkeep array, sqrt(S)
\* Y[:nkeep, :] as an nkeep x C array.  When a non-zero singular value is
\* dropped and another kept, the entries of the factors are irrational:
\* lossy tells so and the arrays carry the shapes only.  mat is the matrix
\* given to np.linalg.svd.
SvdSplit(mat, threshold) ==
    LET R == mat.shape[1]
        C == mat.shape[2]
        E == Rref(MatRows(mat), 1, 1)
        rank == MatRank(E)
        nkeep == NKeep(mat, rank, threshold)
        piv == [y \in 1..rank |-> MinOf({c \in 1..C : E[y][c][1] # 0})]
    IN IF rank = 0 \/ nkeep # rank
       THEN [XS |-> Zeros(<<R, nkeep>>), SY |-> Zeros(<<nkeep, C>>),
             lossy |-> 0 < nkeep /\ nkeep < rank, mat |-> mat]
       ELSE [XS |-> Arr(<<R, nkeep>>,
                        [f \in 1..(R * nkeep) |->
                            mat.data[((f - 1) \div nkeep) * C + piv[((f - 1) % nkeep) + 1]]]),
             SY |-> Arr(<<nkeep, C>>,
                        [f \in 1..(nkeep * C) |->
                            E[((f - 1) \div C) + 1][((f - 1) % C) + 1]]),
             lossy |-> FALSE, mat |-> mat]

(***************************************************************************)
(* MPSState.apply_unitary.  op is [gate, qubits], qubits a sequence of     *)
(* keys of the qubit map.  The result is [raised, M]: the exception ("" if *)
(* none) and self.M after the call.                                        *)
(***************************************************************************)
DimsOf(keys, qubits) == [k \in DOMAIN qubits |-> keys[qubits[k]].dimension]

\* the one-qudit case with the physical axis written before the last bond axis
apply_unitary_1_axes_swapped(keys, sites, op) ==
    LET U == Unitary(op.gate, DimsOf(keys, op.qubits))
        n == QubitMap(op.qubits[1])
        ops == <<Opnd(<<"i", "j">>, U), Opnd(<<"m", "n", "o", "p", "j">>, sites[n + 1])>>
    IN IF ~EinsumOK(ops) THEN [raised |-> "ValueError: einsum", M |-> sites]
       ELSE [raised |-> "",
             M |-> [sites EXCEPT ![n + 1] = Einsum(ops, <<"m", "n", "o", "i", "p">>)]]

\* lines 346-348
apply_unitary_1(keys, sites, op) ==
    LET U == Unitary(op.gate, DimsOf(keys, op.qubits))
        n == QubitMap(op.qubits[1])
        ops == <<Opnd(<<"i", "j">>, U), Opnd(<<"m", "n", "o", "p", "j">>, sites[n + 1])>>
    IN IF ~EinsumOK(ops) THEN [raised |-> "ValueError: einsum", M |-> sites]
       ELSE [raised |-> "",
             M |-> [sites EXCEPT ![n + 1] = Einsum(ops, <<"m", "n", "o", "p", "i">>)]]

\* the checks of lines 351-372 without the one of the 1-D case
Adjacency_grid_only(keys, qubits, idx) ==
    IF is_2d_grid(keys)
    THEN LET q0 == keys[qubits[1]]
             q1 == keys[qubits[2]]
         IN IF q0.row = q1.row
            THEN [raised |-> IF Abs(q0.col - q1.col) # 1
                             THEN "ValueError: qubits on same row but not one column appart"
                             ELSE "",
                  same_row |-> TRUE]
            ELSE IF q0.col = q1.col
            THEN [raised |-> IF Abs(q0.row - q1.row) # 1
                             THEN "ValueError: qubits on same column but not one row appart"
                             ELSE "",
                  same_row |-> FALSE]
            ELSE [raised |-> "ValueError: qubits neither on same row nor on same column",
                  same_row |-> FALSE]
    ELSE [raised |-> "", same_row |-> TRUE]

\* lines 351-372: [raised, same_row]
Adjacency(keys, qubits, idx) ==
    IF is_2d_grid(keys)
    THEN LET q0 == keys[qubits[1]]
             q1 == keys[qubits[2]]
         IN IF q0.row = q1.row
            THEN IF Abs(q0.col - q1.col) # 1
                 THEN [raised |-> "ValueError: qubits on same row but not one column appart",
                       same_row |-> TRUE]
                 ELSE [raised |-> "", same_row |-> TRUE]
            ELSE IF q0.col = q1.col
            THEN IF Abs(q0.row - q1.row) # 1
                 THEN [raised |-> "ValueError: qubits on same column but not one row appart",
                       same_row |-> FALSE]
                 ELSE [raised |-> "", same_row |-> FALSE]
            ELSE [raised |-> "ValueError: qubits neither on same row nor on same column",
                  same_row |-> FALSE]
    ELSE IF Abs(idx[1] - idx[2]) # 1
         THEN [raised |-> "ValueError: Can only handle continguous qubits", same_row |-> TRUE]
         ELSE [raised |-> "", same_row |-> TRUE]

\* lines 398-403 on the truncated factors of T
apply_unitary_2_sites(sites, n, p, same_row, left, right, svd) ==
    LET nkeep == svd.XS.shape[2]
        X == Reshape(svd.XS, left \o <<nkeep>>)
        Y == Reshape(svd.SY, <<nkeep>> \o right)
    IN IF same_row
       THEN [raised |-> "", lossy |-> svd.lossy, T |-> svd.mat,
             M |-> [sites EXCEPT
                      ![n + 1] = Einsum(<<Opnd(<<"m", "o", "p", "k", "n">>, X)>>,
                                        <<"m", "n", "o", "p", "k">>),
                      ![p + 1] = Einsum(<<Opnd(<<"n", "q", "r", "s", "l">>, Y)>>,
                                        <<"n", "q", "r", "s", "l">>)]]
       ELSE [raised |-> "", lossy |-> svd.lossy, T |-> svd.mat,
             M |-> [sites EXCEPT
                      ![n + 1] = Einsum(<<Opnd(<<"m", "n", "o", "k", "p">>, X)>>,
                                        <<"m", "n", "o", "p", "k">>),
                      ![p + 1] = Einsum(<<Opnd(<<"p", "q", "r", "s", "l">>, Y)>>,
                                        <<"q", "r", "p", "s", "l">>)]]

\* lines 383-396 on the contracted pair T; np.linalg.svd fails on an empty
\* matrix
apply_unitary_2_svd(sites, threshold, n, p, same_row, T) ==
    LET left == SubSeq(T.shape, 1, 4)
        right == SubSeq(T.shape, 5, 8)
    IN IF Prod(T.shape) = 0 THEN [raised |-> "LinAlgError", M |-> sites]
       ELSE apply_unitary_2_sites(sites, n, p, same_row, left, right,
                SvdSplit(Reshape(T, <<Prod(left), Prod(right)>>), threshold))

\* lines 379-382 with U as lines 373-377 left it
apply_unitary_2_T(sites, threshold, n, p, same_row, U) ==
    LET ops == IF same_row
               THEN <<Opnd(<<"k", "l", "i", "j">>, U),
                      Opnd(<<"m", "n", "o", "p", "i">>, sites[n + 1]),
                      Opnd(<<"n", "q", "r", "s", "j">>, sites[p + 1])>>
               ELSE <<Opnd(<<"k", "l", "i", "j">>, U),
                      Opnd(<<"m", "n", "o", "p", "i">>, sites[n + 1]),
                      Opnd(<<"q", "r", "p", "s", "j">>, sites[p + 1])>>
    IN IF ~EinsumOK(ops) THEN [raised |-> "ValueError: einsum", M |-> sites]
       ELSE apply_unitary_2_svd(sites, threshold, n, p, same_row,
                Einsum(ops, IF same_row
                            THEN <<"m", "o", "p", "k", "q", "r", "s", "l">>
                            ELSE <<"m", "n", "o", "k", "q", "r", "s", "l">>))

\* lines 349-403
apply_unitary_2(keys, sites, threshold, op) ==
    LET U0 == Unitary(op.gate, DimsOf(keys, op.qubits))
        idx == <<QubitMap(op.qubits[1]), QubitMap(op.qubits[2])>>
        adj == Adjacency(keys, op.qubits, idx)
        n == IF idx[1] < idx[2] THEN idx[1] ELSE idx[2]
        p == IF idx[1] < idx[2] THEN idx[2] ELSE idx[1]
    IN IF adj.raised # "" THEN [raised |-> adj.raised, M |-> sites]
       ELSE apply_unitary_2_T(sites, threshold, n, p, adj.same_row,
                \* np.swapaxes(np.swapaxes(U, 0, 1), 2, 3)
                IF idx[1] < idx[2] THEN U0
                ELSE Einsum(<<Opnd(<<"k", "l", "i", "j">>, U0)>>,
                            <<"l", "k", "j", "i">>))

\* apply_unitary without the else branch of lines 404-405: an operation on
\* more than two qudits is passed over
apply_unitary_no_else(keys, sites, threshold, op) ==
    IF Len(op.qubits) = 1 THEN apply_unitary_1(keys, sites, op)
    ELSE IF Len(op.qubits) = 2 THEN apply_unitary_2(keys, sites, threshold, op)
    ELSE [raised |-> "", M |-> sites]

\* lines 343-405
apply_unitary(keys, sites, threshold, op) ==
    IF Len(op.qubits) = 1 THEN apply_unitary_1(keys, sites, op)
    ELSE IF Len(op.qubits) = 2 THEN apply_unitary_2(keys, sites, threshold, op)
    ELSE [raised |-> "ValueError: Can only handle 1 and 2 qubit operations", M |-> sites]

(***************************************************************************)
(* MPSState.perform_measurement on the sites of `state` (self, or its      *)
(* copy when collapse is suppressed).  prng.choice is a choice among the   *)
(* outcomes of non-zero weight, so that the result is the set of the ways  *)
(* the call can end, each [raised, M, results, weights]: the exception (""  *)
(* if none), state.M when the call ends (by return or by exception), the   *)
(* returned list and the probs of each iteration.                          *)
(***************************************************************************)
AxisLabels == <<"a", "b", "c", "d", "e">>

\* np.kron of two matrices
Kron(A, B) ==
    LET K == Einsum(<<Opnd(<<"i", "j">>, A), Opnd(<<"k", "l">>, B)>>, <<"i", "k", "j", "l">>)
    IN Reshape(K, <<A.shape[1] * B.shape[1], A.shape[2] * B.shape[2]>>)

\* np.eye(d)
Eye(d) == Arr(<<d, d>>, [f \in 1..(d * d) |->
                            IF (f - 1) \div d = (f - 1) % d THEN One ELSE Zero])

\* a renormalizer that scales every digit by w and projects none out
Renormalizer_scaling(d, result, w) ==
    Arr(<<d, d>>, [f \in 1..(d * d) |->
                      IF (f - 1) \div d = (f - 1) % d THEN w ELSE Zero])

\* lines 435-436: w at [result][result], zero elsewhere
Renormalizer(d, result, w) ==
    Arr(<<d, d>>, [f \in 1..(d * d) |->
                      IF (f - 1) \div d = result /\ (f - 1) % d = result
                      THEN w ELSE Zero])

\* lines 441-446; i and j count from 0
RECURSIVE Collapser(_, _, _, _, _)
Collapser(qid_shape, i, renormalizer, j, collapser) ==
    IF j >= Len(qid_shape) THEN collapser
    ELSE Collapser(qid_shape, i, renormalizer, j + 1,
                   IF j = i THEN Kron(collapser, renormalizer)
                   ELSE Kron(collapser, Eye(qid_shape[i + 1])))

\* lines 424-425: np.sum(M.reshape(qid_shape), axis=the axes other than i)
TracedOut(M, qid_shape, i) ==
    LET labels == SubSeq(AxisLabels, 1, Len(qid_shape))
    IN Einsum(<<Opnd(labels, Reshape(M, qid_shape))>>, <<labels[i + 1]>>).data

\* the loop of lines 422-450 from iteration i (counted from 0) on
RECURSIVE MeasureLoop(_, _, _, _, _, _, _)
MeasureLoop(keys, qubits, i, sites, M, results, weights) ==
    LET qid_shape == DimsOf(keys, qubits)
        end(raised, M1, w) ==
            {[raised |-> raised, M |-> M1, results |-> results, weights |-> w]}
    IN
    IF i >= Len(qubits) THEN end("", sites, weights)
    ELSE IF ~ReshapeOK(M, qid_shape) THEN end("ValueError: reshape", sites, weights)
    ELSE
      LET M_traced_out == TracedOut(M, qid_shape, i)
          \* probs = [abs(x) ** 2 for x in M_traced_out]
          probs == [r \in DOMAIN M_traced_out |->
                       RMul(M_traced_out[r], M_traced_out[r])] \o <<>>
          d == qid_shape[i + 1]
          n == QubitMap(qubits[i + 1])
          \* state.M and M after prng.choice returned result
          step(result) ==
              LET \* 1.0 / math.sqrt(probs[result]) = 1 / abs(x)
                  renormalizer ==
                      Renormalizer(d, result, RInv(RAbs(M_traced_out[result + 1])))
                  ops == <<Opnd(<<"i", "j">>, renormalizer),
                           Opnd(<<"m", "n", "o", "p", "j">>, sites[n + 1])>>
                  sites1 == [sites EXCEPT
                               ![n + 1] = Einsum(ops, <<"m", "n", "o", "p", "i">>)]
                  collapser == Collapser(qid_shape, i, renormalizer, 0, Ones(<<1, 1>>))
                  cops == <<Opnd(<<"i", "j">>, collapser), Opnd(<<"j">>, M)>>
              IN IF ~EinsumOK(ops) THEN end("ValueError: einsum", sites, weights)
                 ELSE IF ~EinsumOK(cops)
                 THEN end("ValueError: einsum", sites1, Append(weights, probs))
                 ELSE MeasureLoop(keys, qubits, i + 1, sites1, Einsum(cops, <<"i">>),
                                  Append(results, result), Append(weights, probs))
      IN
      \* sum(probs) = 0: norm_probs is all NaN and prng.choice raises
      IF \A r \in DOMAIN probs : probs[r][1] = 0
      THEN end("ValueError: probabilities contain NaN", sites, weights)
      ELSE UNION {step(result) : result \in {r \in 0..(d - 1) : probs[r + 1][1] # 0}}

\* lines 417-451 on state.M = sites
perform_measurement(keys, sites, qubits) ==
    LET skip_tracing_out_for_qubits == {QubitMap(qubits[k]) : k \in DOMAIN qubits}
        M == sum_up(keys, sites, skip_tracing_out_for_qubits)
    IN IF M.raised # ""
       THEN {[raised |-> M.raised, M |-> sites, results |-> <<>>, weights |-> <<>>]}
       ELSE MeasureLoop(keys, qubits, 0, sites, M.value, <<>>, <<>>)

(***************************************************************************)
(* The state machine: one simulation.  `keys` is the qubit map shared by   *)
(* every MPSState.  `heap` holds the Python lists self.M (a list of site   *)
(* arrays each), `objs` the MPSState objects: objs[1] is the simulator's   *)
(* state, objs[2] the state held by the latest MPSSimulatorStepResult.     *)
(* An MPSState is [M, threshold], M the heap index of its list.  The site  *)
(* arrays are never written in place after construction, so that only the  *)
(* lists are shared or copied.                                             *)
(*                                                                         *)
(* `last` records the call that has just ended: its arguments, the heap    *)
(* and the objects before it (pre), and how it ended.  Return clears the   *)
(* record once the caller has taken the result; of a collapsing            *)
(* measurement the caller keeps the outcome (as the simulator does in      *)
(* `measurements`, line 81) and whether prng.choice had a choice to make,  *)
(* and the next call's record shows them in `before`.                      *)
(***************************************************************************)
VARIABLES keys, heap, objs, last, nops

vars == <<keys, heap, objs, last, nops>>

\* bounds of the model: the number of calls on a register of two qudits
\* and on a larger one, the initial integers, the qudits of a measurement
MaxOps == 3
MaxOpsLarge == 1
MaxInitialState == 4
MaxMeasured == 2
\* the number of calls on a register of RegistersMore
MaxOpsMore == 3

\* registers explored apart from the others: a grid whose index order is not
\* row by row, and a chain of mixed dimensions that reads the same reversed
RegistersMore ==
    { <<GridQid(0, 0, 2), GridQid(1, 0, 2), GridQid(0, 1, 2)>>,
      <<LineQid(0, 2), LineQid(1, 3), LineQid(2, 2)>> }

Registers ==
    { <<LineQid(0, 2), LineQid(1, 2)>>,
      <<LineQid(0, 2), LineQid(1, 2), LineQid(2, 2)>>,
      <<LineQid(0, 2), LineQid(1, 3)>>,
      <<GridQid(0, 0, 2), GridQid(0, 1, 2), GridQid(1, 1, 2)>>,
      <<GridQid(0, 0, 2), GridQid(0, 2, 2), GridQid(2, 0, 2)>> }

\* the sequences of k distinct keys
QubitLists(k) ==
    {qs \in [1..k -> 1..Len(keys)] : \A a, b \in 1..k : a # b => qs[a] # qs[b]}

NoMeasurement == [obj |-> 0, qubits |-> <<>>, results |-> <<>>, undetermined |-> FALSE]

\* the probabilities have at least two outcomes of non-zero weight
Undetermined(probs) ==
    \E r, r2 \in DOMAIN probs : r # r2 /\ probs[r][1] # 0 /\ probs[r2][1] # 0

Idle ==
    [op |-> "", obj |-> 0, qubits |-> <<>>, gate |-> "", initial_state |-> 0,
     collapse_state_vector |-> TRUE, raised |-> "", T |-> <<>>, results |-> <<>>,
     weights |-> <<>>, value |-> <<>>, pre |-> [heap |-> <<>>, objs |-> <<>>],
     before |-> NoMeasurement]

Call(op, obj, qubits, gate) ==
    [Idle EXCEPT !.op = op, !.obj = obj, !.qubits = qubits, !.gate = gate,
                 !.pre = [heap |-> heap, objs |-> objs], !.before = last.before]

\* a copy that takes the list of sites of self instead of copying it
copy_sharing(h, self) ==
    [heap |-> h, state |-> [M |-> self.M, threshold |-> self.threshold]]

\* MPSState.copy (lines 274-278): a new list of the copied sites
copy(h, self) ==
    [heap |-> Append(h, [k \in DOMAIN h[self.M] |-> h[self.M][k]]),
     state |-> [M |-> Len(h) + 1, threshold |-> self.threshold]]

\* MPSState(qubit_map, initial_state)
Init ==
    /\ keys \in Registers
    /\ \E initial_state \in 0..MaxInitialState :
          /\ heap = <<MPSState_M(keys, initial_state)>>
          /\ last = [Idle EXCEPT !.op = "__init__", !.obj = 1,
                                 !.initial_state = initial_state]
    /\ objs = <<[M |-> 1, threshold |-> threshold_default]>>
    /\ nops = 0

\* the number of calls followed on the register
Budget ==
    IF keys \in RegistersMore THEN MaxOpsMore
    ELSE IF Len(keys) <= 2 THEN MaxOps ELSE MaxOpsLarge

\* the caller may make a call; nops counts the calls made, a step result
\* for two (the result and the state it holds)
Ready(cost) ==
    /\ last.op = ""
    /\ nops + cost <= Budget

\* the state after apply_unitary gave r.  After a two-qudit gate, last.T
\* is the matrix that was given to np.linalg.svd.  A run is followed no
\* further once a truncation has left factors with irrational entries.
Applied(o, gate, qubits, r) ==
    LET two == r.raised = "" /\ Len(qubits) = 2
    IN /\ heap' = [heap EXCEPT ![objs[o].M] = r.M]
       /\ last' = [Call("apply_unitary", o, qubits, gate) EXCEPT
                     !.raised = r.raised,
                     !.T = IF two THEN r.T ELSE <<>>]
       /\ nops' = IF two /\ r.lossy THEN Budget ELSE nops + 1
       /\ UNCHANGED <<keys, objs>>

\* state.apply_unitary(op) on objs[o]
ApplyUnitary(o, gate, qubits) ==
    LET self == objs[o]
        r == apply_unitary(keys, heap[self.M], self.threshold,
                           [gate |-> gate, qubits |-> qubits])
    IN /\ Ready(1)
       /\ Applied(o, gate, qubits, r)

\* the heap when the measurement works on self whatever the flag says
MeasuredHeap_on_self(h, self, collapse_state_vector, M) ==
    [h EXCEPT ![self.M] = M]

\* the heap when perform_measurement ends with state.M = M (lines 412-415):
\* state is self, or self.copy(), which is garbage when the call ends
MeasuredHeap(h, self, collapse_state_vector, M) ==
    LET c == IF collapse_state_vector THEN [heap |-> h, state |-> self]
             ELSE copy(h, self)
    IN SubSeq([c.heap EXCEPT ![c.state.M] = M], 1, Len(h))

\* state.perform_measurement(qubits, prng, collapse_state_vector) on objs[o];
\* state.M holds the values of self.M when the loop starts, copied or not
PerformMeasurement(o, qubits) ==
    /\ Ready(1)
    /\ \E r \in perform_measurement(keys, heap[objs[o].M], qubits) :
       \E collapse_state_vector \in BOOLEAN :
          /\ heap' = MeasuredHeap(heap, objs[o], collapse_state_vector, r.M)
          /\ last' = [Call("perform_measurement", o, qubits, "") EXCEPT
                        !.collapse_state_vector = collapse_state_vector,
                        !.raised = r.raised, !.results = r.results,
                        !.weights = r.weights]
    /\ nops' = nops + 1
    /\ UNCHANGED <<keys, objs>>

\* MPSSimulatorStepResult(state, measurements): self.state = state.copy()
StepResult ==
    LET c == copy(<<heap[objs[1].M]>>, objs[1])
    IN /\ Ready(2)
       /\ heap' = c.heap
       /\ objs' = <<objs[1], c.state>>
       /\ last' = Call("copy", 1, <<>>, "")
       /\ nops' = nops + 2
       /\ UNCHANGED keys

\* state.state_vector() on objs[o]
StateVector(o) ==
    LET r == state_vector(keys, heap[objs[o].M])
    IN /\ Ready(1)
       /\ last' = [Call("state_vector", o, <<>>, "") EXCEPT
                     !.raised = r.raised, !.value = r.value.data]
       /\ nops' = nops + 1
       /\ UNCHANGED <<keys, heap, objs>>

\* the caller takes the result of the call
Return ==
    /\ last.op # ""
    /\ last' = [Idle EXCEPT
                   !.before =
                       IF /\ last.op = "perform_measurement"
                          /\ last.collapse_state_vector
                          /\ last.raised = ""
                       THEN [obj |-> last.obj, qubits |-> last.qubits,
                             results |-> last.results,
                             undetermined |-> Undetermined(last.weights[1])]
                       ELSE NoMeasurement]
    /\ UNCHANGED <<keys, heap, objs, nops>>

Next ==
    \/ \E o \in DOMAIN objs : \E k \in 1..3 : \E qubits \in QubitLists(k) :
          \E gate \in (CASE k = 1 -> Gates1 [] k = 2 -> Gates2 [] k = 3 -> Gates3) :
             ApplyUnitary(o, gate, qubits)
    \/ \E o \in DOMAIN objs : \E k \in 1..MaxMeasured : \E qubits \in QubitLists(k) :
          PerformMeasurement(o, qubits)
    \/ StepResult
    \/ \E o \in DOMAIN objs : StateVector(o)
    \/ Return

Spec == Init /\ [][Next]_vars

\* MPSState(qubit_map) on a register of RegistersMore
InitMore ==
    /\ keys \in RegistersMore
    /\ heap = <<MPSState_M(keys, 0)>>
    /\ last = [Idle EXCEPT !.op = "__init__", !.obj = 1]
    /\ objs = <<[M |-> 1, threshold |-> threshold_default]>>
    /\ nops = 0

SpecMore == InitMore /\ [][Next]_vars

\* the values of the attribute threshold: the one of line 257, and two a
\* caller assigns to the state after construction, as copy() does (line 277)
Thresholds == {threshold_default, <<1, 2>>, <<2, 1>>}

\* MPSState(qubit_map, initial_state) on two qubits, then state.threshold
\* assigned
InitThreshold ==
    /\ keys = <<LineQid(0, 2), LineQid(1, 2)>>
    /\ \E initial_state \in 0..MaxInitialState :
          /\ heap = <<MPSState_M(keys, initial_state)>>
          /\ last = [Idle EXCEPT !.op = "__init__", !.obj = 1,
                                 !.initial_state = initial_state]
    /\ \E threshold \in Thresholds :
          objs = <<[M |-> 1, threshold |-> threshold]>>
    /\ nops = 0

SpecThreshold == InitThreshold /\ [][Next]_vars

(***************************************************************************)
(* Properties.  They are stated on the record of the call that has just    *)
(* ended (last), the heap before it (last.pre) and the heap after it.      *)
(***************************************************************************)
\* the sites of the object of the last call, before and after the call
PreSites == last.pre.heap[last.pre.objs[last.obj].M]
PostSites == heap[objs[last.obj].M]

Dims == [i \in DOMAIN keys |-> keys[i].dimension]

\* the site is the basis site of this digit: bonds of extent one and a 1
\* at the digit, 0 elsewhere
HoldsDigit(site, digit) ==
    /\ \A a \in 1..4 : site.shape[a] = 1
    /\ digit < site.shape[5]
    /\ \A f \in 1..site.shape[5] : site.data[f] = IF f = digit + 1 THEN One ELSE Zero

Definite(sites) ==
    \A i \in DOMAIN sites : \E digit \in 0..(sites[i].shape[5] - 1) :
        HoldsDigit(sites[i], digit)

DigitOf(site) == CHOOSE digit \in 0..(site.shape[5] - 1) : HoldsDigit(site, digit)

\* C1: perform_measurement(qubits) on a state in which every qudit holds a
\* definite digit returns, at position i, the digit of the i-th listed
\* qudit, and the projection leaves that digit in the qudit's site.
C1_OutcomesInListedOrder ==
    ( /\ last.op = "perform_measurement"
      /\ last.raised = ""
      /\ Definite(PreSites) )
    => \A i \in DOMAIN last.qubits :
          LET n == QubitMap(last.qubits[i])
              digit == DigitOf(PreSites[n + 1])
          IN /\ last.results[i] = digit
             /\ last.collapse_state_vector => HoldsDigit(PostSites[n + 1], digit)

\* the squared magnitudes of the state-vector entries whose digit at
\* position n is r, summed
ExactMarginal(sites, n, r) ==
    LET v == state_vector(keys, sites).value.data
        shape == [i \in DOMAIN sites |-> sites[i].shape[5]]
        sq == [f \in DOMAIN v |->
                  IF Coord(shape, f - 1, n + 1) = r THEN RMul(v[f], v[f]) ELSE Zero]
    IN SumTo(sq, Len(v))

\* C2: the weights of the outcomes of a qudit measured alone are, up to
\* their normalisation, the sums of the squared magnitudes of the entries of
\* the full state vector that have that outcome at the qudit's axis (no
\* truncation happens in this model: every non-zero singular value is kept).
C2_WeightsAreExactMarginals ==
    ( /\ last.op = "perform_measurement"
      /\ Len(last.qubits) = 1
      /\ last.weights # <<>> )
    => LET n == QubitMap(last.qubits[1])
           w == last.weights[1]
           exact == [r \in DOMAIN w |-> ExactMarginal(PreSites, n, r - 1)]
       IN \A r, r2 \in DOMAIN w : RMul(w[r], exact[r2]) = RMul(w[r2], exact[r])

\* C3: perform_measurement with collapse_state_vector=False leaves the sites,
\* the threshold and the list of the state it is called on as they were.
C3_NoCollapseLeavesState ==
    ( /\ last.op = "perform_measurement"
      /\ ~last.collapse_state_vector )
    => /\ objs = last.pre.objs
       /\ heap = last.pre.heap

\* a measurement without collapse ended normally on a state in which the
\* first measured qudit had more than one possible outcome
C3_Witness ==
    /\ last.op = "perform_measurement"
    /\ ~last.collapse_state_vector
    /\ last.raised = ""
    /\ Undetermined(last.weights[1])
    /\ heap = last.pre.heap

\* C4: copy() gives a state with equal sites and threshold and a list of its
\* own, and a later gate or measurement on either state leaves the sites of
\* the other as they were.
C4_CopyIsIndependent ==
    /\ last.op = "copy"
       => /\ Len(objs) = 2
          /\ objs[2].M # objs[1].M
          /\ heap[objs[2].M] = heap[objs[1].M]
          /\ objs[2].threshold = objs[1].threshold
    /\ ( /\ last.op \in {"apply_unitary", "perform_measurement"}
         /\ Len(objs) = 2 )
       => LET other == 3 - last.obj
          IN heap[objs[other].M] = last.pre.heap[last.pre.objs[other].M]

\* a call changed the sites of one of two states
C4_Witness ==
    /\ last.op \in {"apply_unitary", "perform_measurement"}
    /\ Len(objs) = 2
    /\ PostSites # PreSites
    /\ heap[objs[3 - last.obj].M] = PreSites

\* the two qudits are neighbours on the chain or on the grid
Neighbours(q0, q1) ==
    \/ q0.row = q1.row /\ Abs(q0.col - q1.col) = 1
    \/ q0.col = q1.col /\ Abs(q0.row - q1.row) = 1

\* C5: apply_unitary with a two-qudit operation on qudits that are not
\* neighbours raises an error and leaves every site unchanged.
C5_NonAdjacentRaises ==
    ( /\ last.op = "apply_unitary"
      /\ Len(last.qubits) = 2
      /\ ~Neighbours(keys[last.qubits[1]], keys[last.qubits[2]]) )
    => /\ last.raised # ""
       /\ heap = last.pre.heap

\* a two-qudit operation was applied to the two ends of a chain of three
C5_Witness ==
    /\ last.op = "apply_unitary"
    /\ Len(last.qubits) = 2
    /\ ~is_2d_grid(keys)
    /\ Abs(keys[last.qubits[1]].col - keys[last.qubits[2]].col) = 2
    /\ last.raised # ""

\* C6: apply_unitary with an operation on a number of qudits other than one
\* or two raises an error and leaves every site unchanged.
C6_ArityRaises ==
    ( /\ last.op = "apply_unitary"
      /\ Len(last.qubits) \notin {1, 2} )
    => /\ last.raised # ""
       /\ heap = last.pre.heap

\* a three-qudit operation was applied
C6_Witness ==
    /\ last.op = "apply_unitary"
    /\ Len(last.qubits) = 3
    /\ last.gate = "CCX"
    /\ last.raised # ""

\* C7: constructing a state from an integer that is not below the product
\* of the qudit dimensions fails (InvalidState).
C7_InitialStateTooLargeFails ==
    ( /\ last.op = "__init__"
      /\ last.initial_state >= Prod(Dims) )
    => last.raised # ""

\* the vector of this length with a 1 at index s (from 0) and 0 elsewhere
UnitVector(length, s) == [f \in 1..length |-> IF f = s + 1 THEN One ELSE Zero]

\* C8: state_vector() on the state constructed from an integer s below the
\* product of the dimensions returns the vector of that length with a 1 at
\* index s and 0 elsewhere.
C8_StateVectorOfBasisState ==
    \A s \in 0..(Prod(Dims) - 1) :
        ( /\ last.op = "state_vector"
          /\ PreSites = MPSState_M(keys, s) )
        => /\ last.raised = ""
           /\ last.value = UnitVector(Prod(Dims), s)

\* state_vector() was the first call on a state constructed from an integer
\* whose digits are not all equal
C8_Witness ==
    /\ last.op = "state_vector"
    /\ nops = 1
    /\ PreSites = MPSState_M(keys, 1)
    /\ last.value = UnitVector(Prod(Dims), 1)

\* C9: a collapsing measurement of a qudit right after a collapsing
\* measurement of the same qudit of the same state ends normally and returns
\* the same outcome.
C9_CollapseIsIdempotent ==
    ( /\ last.op = "perform_measurement"
      /\ last.collapse_state_vector
      /\ Len(last.qubits) = 1
      /\ last.before.obj = last.obj
      /\ last.before.qubits = last.qubits )
    => /\ last.raised = ""
       /\ last.results = last.before.results

\* the second of two such measurements ended, the first having had more
\* than one possible outcome
C9_Witness ==
    /\ last.op = "perform_measurement"
    /\ last.collapse_state_vector
    /\ last.raised = ""
    /\ Len(last.qubits) = 1
    /\ last.before.obj = last.obj
    /\ last.before.qubits = last.qubits
    /\ last.before.undetermined
    /\ last.results = last.before.results

\* C10: the physical axis of the site at position i has the extent of the
\* dimension of the qudit mapped to position i.
C10_PhysicalExtentIsDimension ==
    \A o \in DOMAIN objs : \A i \in DOMAIN keys :
        heap[objs[o].M][i].shape[5] = keys[i].dimension

\* the extents of the four bond axes of a site
Bonds(site) == SubSeq(site.shape, 1, 4)

\* C14: a one-qudit apply_unitary changes no bond extent of any site, the
\* target site keeps a shape of five axes, and every site other than the
\* target's is left as it was.
C14_OneQuditGateKeepsBonds ==
    ( /\ last.op = "apply_unitary"
      /\ Len(last.qubits) = 1 )
    => \A i \in DOMAIN PostSites :
          /\ Len(PostSites[i].shape) = 5
          /\ Bonds(PostSites[i]) = Bonds(PreSites[i])
          /\ i # QubitMap(last.qubits[1]) + 1 => PostSites[i] = PreSites[i]

\* a one-qudit gate was accepted on a site that has a bond of extent two
\* and changed the site
C14_Witness ==
    /\ last.op = "apply_unitary"
    /\ Len(last.qubits) = 1
    /\ last.raised = ""
    /\ \E a \in 1..4 : PreSites[QubitMap(last.qubits[1]) + 1].shape[a] = 2
    /\ PostSites # PreSites


\* C11: after accepted apply_unitary calls and collapsing measurements, on
\* a chain or a grid and whatever the index map of the qudits, _sum_up
\* (so state_vector and perform_measurement) ends without one of its
\* assertions failing: the bond axes at the end of each row and of the grid
\* have extent 1.
C11_SumUpAssertionsHold ==
    last.op \in {"state_vector", "perform_measurement"}
        => last.raised # "AssertionError"


\* the number of singular values s_i of a 2 x 2 array with
\* s_i >= threshold * s_0
Reaching(mat, threshold) ==
    LET rank == MatRank(Rref(MatRows(mat), 1, 1))
    IN IF rank = 0 THEN 2
       ELSE IF ~RLeq(threshold, One) THEN 0
       ELSE IF rank = 2 /\ SecondReaches(mat, threshold) THEN 2
       ELSE 1

\* C12: in a two-qudit apply_unitary the number of singular values kept,
\* the extent of the bond between the two sites, is the number of
\* singular values s_i of the flattened joint matrix with
\* s_i >= threshold * s_0 (stated for the thresholds of Thresholds other
\* than 1e-3, on two qubits).
C12_KeptReachThreshold ==
    ( /\ last.op = "apply_unitary"
      /\ Len(last.qubits) = 2
      /\ last.raised = ""
      /\ last.T.shape = <<2, 2>>
      /\ objs[last.obj].threshold # threshold_default )
    => PostSites[1].shape[2] = Reaching(last.T, objs[last.obj].threshold)

\* C13: whatever the positive threshold, every bond extent of every site
\* is at least 1 in every reachable state.
C13_BondsAtLeastOne ==
    \A h \in DOMAIN heap : \A i \in DOMAIN heap[h] :
        \A a \in 1..4 : heap[h][i].shape[a] >= 1


\* the squared magnitudes of the state-vector entries whose digits at the
\* positions of the listed qudits are the results, summed
ExactJoint(sites, qubits, results) ==
    LET v == state_vector(keys, sites).value.data
        shape == [i \in DOMAIN sites |-> sites[i].shape[5]]
        sq == [f \in DOMAIN v |->
                  IF \A k \in DOMAIN qubits :
                        Coord(shape, f - 1, QubitMap(qubits[k]) + 1) = results[k]
                  THEN RMul(v[f], v[f]) ELSE Zero]
    IN SumTo(sq, Len(v))

\* C15: in one perform_measurement of several qudits, of equal or of
\* different dimensions, the projection after each outcome fits the running
\* joint tensor (it acts on the measured qudit's axis and as the identity of
\* the matching dimension on the others), and the tuple returned has a
\* non-zero joint probability in the state before the measurement.
C15_OutcomeTupleIsPossible ==
    ( /\ last.op = "perform_measurement"
      /\ Len(last.qubits) >= 2 )
    => /\ last.raised \notin {"ValueError: einsum", "ValueError: reshape"}
       /\ last.raised = ""
             => ExactJoint(PreSites, last.qubits, last.results)[1] # 0

=============================================================================
